---- MODULE Spec2Model ----
(***************************************************************************)
(* The Highway active-validator scheduler                                  *)
(* (node/src/components/consensus/highway_core/active_validator.rs).       *)
(*                                                                         *)
(* The ActiveValidator is a struct (vidx, secret, round_exp, next_timer)   *)
(* with three entry points, handle_timer, on_new_vote and propose, each    *)
(* returning a Vec<Effect>.  The protocol State it reads (state.rs) is not *)
(* part of the checked sources: it is modelled from its description in the *)
(* specification, section 6 (StateView).                                   *)
(*                                                                         *)
(* With it, two objects of the framing crate (src/lib.rs): ImmediateFrame, *)
(* a Buf over a small array, and TestingSink, the plugged and clogged sink *)
(* of its tests, driven by tasks that send into it.                        *)
(***************************************************************************)
EXTENDS Integers, Sequences, FiniteSets, TLC

VARIABLES
    av,         \* the ActiveValidator: [vidx, round_exp, next_timer]
    state,      \* the protocol State: [votes, panorama, evidence, seed]
    effects,    \* the Vec<Effect> returned by the last entry-point call
    call,       \* the last step of the outer loop and its arguments
    emitted,    \* every vote this validator returned in a NewVertex, in order
    timers,     \* the timers issued and delivered so far, where the outer
                \* loop keeps track of them: [issued, fired]
    frame,      \* an ImmediateFrame: [pos, value], and whether a call on it
                \* has aborted the program
    sink,       \* a TestingSink: [plugged, clogged, waker, buffer]
    tasks,      \* the tasks sending into the sink: for each its send future
                \* and whether the task has been woken
    sent        \* the sends so far: how many were started, which items were
                \* admitted by the sink, which were abandoned before that

vars == <<av, state, effects, call, emitted, timers, frame, sink, tasks, sent>>

---------------------------------------------------------------------------
(* Bounds of the model.                                                    *)

\* Frames hold 0 .. MaxFrameLen bytes.
MaxFrameLen == 4
\* usize is UsizeBits wide: positions and counts are 0 .. 2^UsizeBits - 1.
UsizeBits == 3
\* Tasks 1 .. NumTasks send into the sink, MaxSends sends in all.
NumTasks == 2
MaxSends == 3

\* Validators are 0 .. NumValidators - 1.
NumValidators == 3
\* Entry points and votes carry timestamps 0 .. MaxTime.
MaxTime == 2
\* The state holds at most MaxVotes votes.
MaxVotes == 2
\* Round exponents 0 .. MaxRoundExp are tried (round lengths 1, 2, 4, ...).
MaxRoundExp == 2
\* Consensus values are 1 .. MaxValue.
MaxValue == 1
\* Seen one whole turn at a time, the state holds at most MaxRunVotes votes,
\* at most MaxRunForeign of them votes of other validators.
MaxRunVotes == 4
MaxRunForeign == 2
\* Where the outer loop may run on without adding a returned vote, at most
\* MaxUnadded emitted votes are missing from the state.
MaxUnadded == 1
\* Where the outer loop delivers exactly the timers asked for, it does so up
\* to the timestamp MaxScheduleTime.
MaxScheduleTime == 9
\* Where only the longest rounds are looked at, the state holds at most
\* MaxDeepVotes votes, at most MaxDeepForeign of them of other validators.
MaxDeepVotes == 3
MaxDeepForeign == 2

Validators == 0 .. (NumValidators - 1)
Times == 0 .. MaxTime
RoundExps == 0 .. MaxRoundExp
Values == 1 .. MaxValue
\* The seeds of the state's leader sequence that are tried.
Seeds == {1}
\* The index of the validator that runs the scheduler.
Self == 0

\* Option<C::ConsensusValue>::None.
NoValue == 0

---------------------------------------------------------------------------
(* Observation and Panorama (vote.rs, modelled from the specification).    *)

ObsNone == [tag |-> "None"]
Faulty == [tag |-> "Faulty"]
Correct(h) == [tag |-> "Correct", hash |-> h]

\* Observation::correct(): the hash of a Correct observation, if it is one.
is_correct(obs) == obs.tag = "Correct"

EmptyPanorama == [v \in Validators |-> ObsNone]

\* Panorama::is_empty(): every entry is None.
is_empty(panorama) == \A v \in Validators : panorama[v] = ObsNone

\* Panorama::update(idx, obs).
update(panorama, idx, obs) == [panorama EXCEPT ![idx] = obs]

---------------------------------------------------------------------------
(* Effect (active_validator.rs:22-30).                                     *)

NewVertex(vote) == [kind |-> "NewVertex", vote |-> vote]
ScheduleTimer(t) == [kind |-> "ScheduleTimer", timestamp |-> t]
RequestNewBlock(t) == [kind |-> "RequestNewBlock", timestamp |-> t]

---------------------------------------------------------------------------
(* State (state.rs, modelled from the specification, section 6).           *)
(* Votes are identified by their hash; the model numbers them 1, 2, ... in *)
(* the order they were added, state.votes[h] being the vote with hash h.   *)

\* State::vote(hash).
vote(st, h) == st.votes[h]

\* State::leader(timestamp): a fixed pseudo-random function of the seed and
\* the timestamp.
leader(st, timestamp) == (st.seed + timestamp) % NumValidators

\* State::has_evidence(idx).
has_evidence(st, idx) == idx \in st.evidence

\* State::faulty_validators().
faulty_validators(st) == st.evidence

\* The hash of a vote: that of the stored vote with the same content, else
\* a fresh one.
hash_of(st, v) ==
    IF \E h \in DOMAIN st.votes : st.votes[h] = v
    THEN CHOOSE h \in DOMAIN st.votes : st.votes[h] = v
    ELSE Len(st.votes) + 1

\* Walks the creator's own votes back from h to the first one whose
\* timestamp is at most the cutoff; 0 if there is none.
RECURSIVE find_ancestor_vote(_, _, _)
find_ancestor_vote(st, h, timestamp) ==
    LET v == vote(st, h) IN
    IF v.timestamp <= timestamp THEN h
    ELSE IF is_correct(v.panorama[v.creator])
         THEN find_ancestor_vote(st, v.panorama[v.creator].hash, timestamp)
         ELSE 0

\* State::panorama_cutoff(panorama, timestamp).
panorama_cutoff(st, panorama, timestamp) ==
    [v \in Validators |->
        IF is_correct(panorama[v])
        THEN LET h == find_ancestor_vote(st, panorama[v].hash, timestamp)
             IN IF h = 0 THEN ObsNone ELSE Correct(h)
        ELSE panorama[v]]

\* State::merge_panoramas(pan0, pan1): pointwise; Faulty dominates, None is
\* the identity, otherwise the Correct vote with the later sequence number.
merge_panoramas(st, pan0, pan1) ==
    [v \in Validators |->
        IF pan0[v] = Faulty \/ pan1[v] = Faulty THEN Faulty
        ELSE IF pan0[v] = ObsNone THEN pan1[v]
        ELSE IF pan1[v] = ObsNone THEN pan0[v]
        ELSE IF vote(st, pan0[v].hash).seq_number >= vote(st, pan1[v].hash).seq_number
             THEN pan0[v]
             ELSE pan1[v]]

\* State::sees_correct(panorama, hash): hash is in the causal past of the
\* panorama.
RECURSIVE sees_correct(_, _, _)
sees_correct(st, panorama, h) ==
    \E v \in Validators :
        /\ is_correct(panorama[v])
        /\ \/ panorama[v].hash = h
           \/ /\ panorama[v].hash > h
              /\ sees_correct(st, vote(st, panorama[v].hash).panorama, h)

\* State::add_vote(vote): stores the vote and updates the state's panorama.
\* A vote that does not cite its creator's latest vote is an equivocation:
\* its creator is marked Faulty and the evidence is kept.
add_vote(st, v) ==
    LET h == hash_of(st, v)
        c == v.creator
    IN  IF h \in DOMAIN st.votes THEN st
        ELSE IF st.panorama[c] = Faulty
             THEN [st EXCEPT !.votes = Append(@, v)]
        ELSE IF st.panorama[c] = v.panorama[c]
             THEN [st EXCEPT !.votes = Append(@, v),
                             !.panorama = update(@, c, Correct(h))]
        ELSE [st EXCEPT !.votes = Append(@, v),
                        !.panorama = update(@, c, Faulty),
                        !.evidence = @ \cup {c}]

\* State::add_evidence(evidence): keeps the evidence against its perpetrator,
\* who is Faulty from then on.
add_evidence(st, idx) ==
    [st EXCEPT !.panorama = update(@, idx, Faulty), !.evidence = @ \cup {idx}]

---------------------------------------------------------------------------
(* ActiveValidator (active_validator.rs).                                  *)

\* round_len: 1u64 << round_exp.
round_len(a) == 2 ^ a.round_exp

\* witness_offset with the division done first: round_len / 3 * 2.
witness_offset_slip(a) == (round_len(a) \div 3) * 2

\* witness_offset: round_len * 2 / 3.
witness_offset(a) == (round_len(a) * 2) \div 3

\* earliest_vote_time: the timestamp of our previous vote, or 0.
earliest_vote_time(a, st) ==
    IF is_correct(st.panorama[a.vidx])
    THEN vote(st, st.panorama[a.vidx].hash).timestamp
    ELSE 0

\* schedule_timer without the early return for a timer already scheduled.
schedule_timer_always(a, timestamp, st) ==
    LET round_offset == timestamp % round_len(a)
        round_id == timestamp - round_offset
        next ==
            IF round_offset < witness_offset(a)
            THEN round_id + witness_offset(a)
            ELSE IF leader(st, round_id + round_len(a)) = a.vidx
                 THEN round_id + round_len(a)
                 ELSE round_id + round_len(a) + witness_offset(a)
    IN  [av |-> [a EXCEPT !.next_timer = next],
         effects |-> <<ScheduleTimer(next)>>]

\* schedule_timer that never wakes for the next round's proposal tick.
schedule_timer_noleader(a, timestamp, st) ==
    IF a.next_timer > timestamp
    THEN [av |-> a, effects |-> <<>>]
    ELSE LET round_offset == timestamp % round_len(a)
             round_id == timestamp - round_offset
             next ==
                 IF round_offset < witness_offset(a)
                 THEN round_id + witness_offset(a)
                 ELSE round_id + round_len(a) + witness_offset(a)
         IN  [av |-> [a EXCEPT !.next_timer = next],
              effects |-> <<ScheduleTimer(next)>>]

\* schedule_timer that also does nothing when called exactly at next_timer.
schedule_timer_not_due(a, timestamp, st) ==
    IF a.next_timer >= timestamp
    THEN [av |-> a, effects |-> <<>>]
    ELSE LET round_offset == timestamp % round_len(a)
             round_id == timestamp - round_offset
             next ==
                 IF round_offset < witness_offset(a)
                 THEN round_id + witness_offset(a)
                 ELSE IF leader(st, round_id + round_len(a)) = a.vidx
                      THEN round_id + round_len(a)
                      ELSE round_id + round_len(a) + witness_offset(a)
         IN  [av |-> [a EXCEPT !.next_timer = next],
              effects |-> <<ScheduleTimer(next)>>]

\* schedule_timer: the validator after the call and the effects returned.
schedule_timer(a, timestamp, st) ==
    IF a.next_timer > timestamp
    THEN [av |-> a, effects |-> <<>>]
    ELSE LET round_offset == timestamp % round_len(a)
             round_id == timestamp - round_offset
             next ==
                 IF round_offset < witness_offset(a)
                 THEN round_id + witness_offset(a)
                 ELSE IF leader(st, round_id + round_len(a)) = a.vidx
                      THEN round_id + round_len(a)
                      ELSE round_id + round_len(a) + witness_offset(a)
         IN  [av |-> [a EXCEPT !.next_timer = next],
              effects |-> <<ScheduleTimer(next)>>]

\* new_vote that repeats the sequence number of our vote in the panorama.
new_vote_noinc(a, panorama, timestamp, value, st) ==
    [panorama |-> panorama,
     creator |-> a.vidx,
     value |-> value,
     seq_number |-> IF is_correct(panorama[a.vidx])
                    THEN vote(st, panorama[a.vidx].hash).seq_number
                    ELSE 0,
     timestamp |-> timestamp]

\* new_vote: the vote with the given data and the sequence number following
\* that of our vote in the panorama.
new_vote(a, panorama, timestamp, value, st) ==
    LET seq_number ==
            IF is_correct(panorama[a.vidx])
            THEN vote(st, panorama[a.vidx].hash).seq_number + 1
            ELSE 0
    IN  [panorama |-> panorama,
         creator |-> a.vidx,
         value |-> value,
         seq_number |-> seq_number,
         timestamp |-> timestamp]

\* should_send_confirmation without the last condition (not confirmed already).
should_send_confirmation_again(a, vhash, timestamp, st) ==
    LET v == vote(st, vhash) IN
    IF v.timestamp > timestamp THEN FALSE
    ELSE /\ timestamp \div round_len(a) = v.timestamp \div round_len(a)
         /\ leader(st, v.timestamp) = v.creator
         /\ v.creator # a.vidx
         /\ ~has_evidence(st, v.creator)

\* should_send_confirmation without the test for the current round.
should_send_confirmation_anyround(a, vhash, timestamp, st) ==
    LET v == vote(st, vhash) IN
    IF v.timestamp > timestamp THEN FALSE
    ELSE /\ leader(st, v.timestamp) = v.creator
         /\ v.creator # a.vidx
         /\ ~has_evidence(st, v.creator)
         /\ \/ ~is_correct(st.panorama[a.vidx])
            \/ ~sees_correct(st, vote(st, st.panorama[a.vidx].hash).panorama, vhash)

\* should_send_confirmation that does not look at who created the vote.
should_send_confirmation_anyone(a, vhash, timestamp, st) ==
    LET v == vote(st, vhash) IN
    IF v.timestamp > timestamp THEN FALSE
    ELSE /\ timestamp \div round_len(a) = v.timestamp \div round_len(a)
         /\ leader(st, v.timestamp) = v.creator
         /\ \/ ~is_correct(st.panorama[a.vidx])
            \/ ~sees_correct(st, vote(st, st.panorama[a.vidx].hash).panorama, vhash)

\* should_send_confirmation without the check for a vote from the future.
should_send_confirmation_future(a, vhash, timestamp, st) ==
    LET v == vote(st, vhash) IN
    /\ timestamp \div round_len(a) = v.timestamp \div round_len(a)
    /\ leader(st, v.timestamp) = v.creator
    /\ v.creator # a.vidx
    /\ ~has_evidence(st, v.creator)
    /\ \/ ~is_correct(st.panorama[a.vidx])
       \/ ~sees_correct(st, vote(st, st.panorama[a.vidx].hash).panorama, vhash)

\* should_send_confirmation.
should_send_confirmation(a, vhash, timestamp, st) ==
    LET v == vote(st, vhash) IN
    IF v.timestamp > timestamp THEN FALSE
    ELSE /\ timestamp \div round_len(a) = v.timestamp \div round_len(a)
         /\ leader(st, v.timestamp) = v.creator
         /\ v.creator # a.vidx
         /\ ~has_evidence(st, v.creator)
         /\ \/ ~is_correct(st.panorama[a.vidx])
            \/ ~sees_correct(st, vote(st, st.panorama[a.vidx].hash).panorama, vhash)

\* The faulty overlay left out.
mark_faulty_skip(st, panorama) == panorama

\* The faulty overlay of confirmation_panorama (lines 187-189).
mark_faulty(st, panorama) ==
    [v \in Validators |-> IF v \in faulty_validators(st) THEN Faulty ELSE panorama[v]]

\* confirmation_panorama that starts from the vote's panorama alone, without
\* merging in that of our previous vote.
confirmation_panorama_nomerge(a, vhash, st) ==
    LET v == vote(st, vhash)
        start ==
            IF is_correct(st.panorama[a.vidx])
            THEN update(v.panorama, a.vidx, st.panorama[a.vidx])
            ELSE v.panorama
    IN  mark_faulty(st, update(start, v.creator, Correct(vhash)))

\* confirmation_panorama.
confirmation_panorama(a, vhash, st) ==
    LET v == vote(st, vhash)
        start ==
            IF is_correct(st.panorama[a.vidx])
            THEN LET prev_hash == st.panorama[a.vidx].hash
                     own_vote == vote(st, prev_hash)
                 IN  update(merge_panoramas(st, v.panorama, own_vote.panorama),
                            a.vidx, Correct(prev_hash))
            ELSE v.panorama
    IN  mark_faulty(st, update(start, v.creator, Correct(vhash)))

\* handle_timer without the check for an outdated timer event.
handle_timer_noguard(a, timestamp, st) ==
    LET sched == schedule_timer(a, timestamp, st)
        a1 == sched.av
        round_offset == timestamp % round_len(a1)
        round_id == timestamp - round_offset
    IN  IF round_offset = 0 /\ leader(st, round_id) = a1.vidx
        THEN [av |-> a1,
              effects |-> Append(sched.effects, RequestNewBlock(timestamp))]
        ELSE IF round_offset = witness_offset(a1)
             THEN LET panorama == panorama_cutoff(st, st.panorama, timestamp)
                  IN  IF ~is_empty(panorama)
                      THEN [av |-> a1,
                            effects |-> Append(sched.effects,
                                NewVertex(new_vote(a1, panorama, timestamp, NoValue, st)))]
                      ELSE sched
        ELSE sched

\* handle_timer that requests a block at every proposal tick, leader or not.
handle_timer_noleader(a, timestamp, st) ==
    LET sched == schedule_timer(a, timestamp, st)
        a1 == sched.av
        round_offset == timestamp % round_len(a1)
    IN  IF earliest_vote_time(a1, st) > timestamp THEN sched
        ELSE IF round_offset = 0
             THEN [av |-> a1,
                   effects |-> Append(sched.effects, RequestNewBlock(timestamp))]
        ELSE IF round_offset = witness_offset(a1)
             THEN LET panorama == panorama_cutoff(st, st.panorama, timestamp)
                  IN  IF ~is_empty(panorama)
                      THEN [av |-> a1,
                            effects |-> Append(sched.effects,
                                NewVertex(new_vote(a1, panorama, timestamp, NoValue, st)))]
                      ELSE sched
        ELSE sched

\* handle_timer that does nothing at all while a later timer is scheduled.
handle_timer_only_due(a, timestamp, st) ==
    LET sched == schedule_timer(a, timestamp, st)
        a1 == sched.av
        round_offset == timestamp % round_len(a1)
        round_id == timestamp - round_offset
    IN  IF earliest_vote_time(a1, st) > timestamp \/ a.next_timer > timestamp THEN sched
        ELSE IF round_offset = 0 /\ leader(st, round_id) = a1.vidx
             THEN [av |-> a1,
                   effects |-> Append(sched.effects, RequestNewBlock(timestamp))]
        ELSE IF round_offset = witness_offset(a1)
             THEN LET panorama == panorama_cutoff(st, st.panorama, timestamp)
                  IN  IF ~is_empty(panorama)
                      THEN [av |-> a1,
                            effects |-> Append(sched.effects,
                                NewVertex(new_vote(a1, panorama, timestamp, NoValue, st)))]
                      ELSE sched
        ELSE sched

\* handle_timer: the validator after the call and the effects returned.
handle_timer(a, timestamp, st) ==
    LET sched == schedule_timer(a, timestamp, st)
        a1 == sched.av
        round_offset == timestamp % round_len(a1)
        round_id == timestamp - round_offset
    IN  IF earliest_vote_time(a1, st) > timestamp THEN sched
        ELSE IF round_offset = 0 /\ leader(st, round_id) = a1.vidx
             THEN [av |-> a1,
                   effects |-> Append(sched.effects, RequestNewBlock(timestamp))]
        ELSE IF round_offset = witness_offset(a1)
             THEN LET panorama == panorama_cutoff(st, st.panorama, timestamp)
                  IN  IF ~is_empty(panorama)
                      THEN [av |-> a1,
                            effects |-> Append(sched.effects,
                                NewVertex(new_vote(a1, panorama, timestamp, NoValue, st)))]
                      ELSE sched
        ELSE sched

\* on_new_vote without the check for an outdated confirmation.
on_new_vote_noguard(a, vhash, timestamp, st) ==
    IF should_send_confirmation(a, vhash, timestamp, st)
    THEN LET panorama == confirmation_panorama(a, vhash, st)
         IN  IF ~is_empty(panorama)
             THEN <<NewVertex(new_vote(a, panorama, timestamp, NoValue, st))>>
             ELSE <<>>
    ELSE <<>>

\* on_new_vote: the effects returned (&self: the validator is not changed).
on_new_vote(a, vhash, timestamp, st) ==
    IF earliest_vote_time(a, st) > timestamp THEN <<>>
    ELSE IF should_send_confirmation(a, vhash, timestamp, st)
         THEN LET panorama == confirmation_panorama(a, vhash, st)
              IN  IF ~is_empty(panorama)
                  THEN <<NewVertex(new_vote(a, panorama, timestamp, NoValue, st))>>
                  ELSE <<>>
    ELSE <<>>

\* propose that checks that we are the leader at the context's timestamp.
propose_leader_only(a, value, timestamp, st) ==
    IF earliest_vote_time(a, st) > timestamp \/ leader(st, timestamp) # a.vidx THEN <<>>
    ELSE LET panorama == panorama_cutoff(st, st.panorama, timestamp)
         IN  <<NewVertex(new_vote(a, panorama, timestamp, value, st))>>

\* propose without the check for an outdated proposal.
propose_noguard(a, value, timestamp, st) ==
    LET panorama == panorama_cutoff(st, st.panorama, timestamp)
    IN  <<NewVertex(new_vote(a, panorama, timestamp, value, st))>>

\* propose: the effects returned (&self: the validator is not changed).
propose(a, value, timestamp, st) ==
    IF earliest_vote_time(a, st) > timestamp THEN <<>>
    ELSE LET panorama == panorama_cutoff(st, st.panorama, timestamp)
         IN  <<NewVertex(new_vote(a, panorama, timestamp, value, st))>>

\* ActiveValidator::new: the validator and the timer effect for the first call.
new(vidx, round_exp, timestamp, st) ==
    schedule_timer([vidx |-> vidx, round_exp |-> round_exp, next_timer |-> 0],
                   timestamp, st)

---------------------------------------------------------------------------
(* The outer loop.                                                         *)

\* The votes of the NewVertex effects among effs, in order.
RECURSIVE NewVertexVotes(_)
NewVertexVotes(effs) ==
    IF effs = <<>> THEN <<>>
    ELSE IF Head(effs).kind = "NewVertex"
         THEN <<Head(effs).vote>> \o NewVertexVotes(Tail(effs))
         ELSE NewVertexVotes(Tail(effs))

\* The same votes, each with the entry point that returned it (and, for
\* on_new_vote, the vote it was called for).
RECURSIVE Tagged(_, _)
Tagged(by, votes) ==
    IF votes = <<>> THEN <<>>
    ELSE <<[by |-> by, vote |-> Head(votes)]>> \o Tagged(by, Tail(votes))

\* State::new: no votes, and the seed of the leader sequence.
EmptyState(seed) ==
    [votes |-> <<>>, panorama |-> EmptyPanorama, evidence |-> {}, seed |-> seed]

\* No timer is on record.
NoTimers == [issued |-> {}, fired |-> {}]

\* No entry point is running and the effects of the last one are applied.
Idle == [op |-> "idle"]

\* Adds the votes to the state, in order.
RECURSIVE add_votes(_, _)
add_votes(st, votes) ==
    IF votes = <<>> THEN st ELSE add_votes(add_vote(st, Head(votes)), Tail(votes))

\* ImmediateFrame and TestingSink (src/lib.rs).

USIZE == 2 ^ UsizeBits

Min(a, b) == IF a <= b THEN a ELSE b

\* Bytes that frames are made of.
Bytes == {0, 255}

\* Integers that frames are converted from.
U8s == {0, 7, 255}
U16s == {0, 258, 65535}
U32s == {0, 16909060}

\* to_le_bytes of an integer of n bytes.
to_le_bytes(value, n) == [i \in 1 .. n |-> (value \div (256 ^ (i - 1))) % 256]

\* ImmediateFrame::new.
frame_new(value) == [pos |-> 0, value |-> value, aborted |-> FALSE]

\* From<u8>, From<u16>, From<u32>.
from_u8(value) == frame_new(to_le_bytes(value, 1))
from_u16(value) == frame_new(to_le_bytes(value, 2))
from_u32(value) == frame_new(to_le_bytes(value, 4))

NoFrame == frame_new(<<>>)

\* Buf::remaining.
remaining(f) == Len(f.value) - f.pos

\* Buf::chunk.
chunk(f) == SubSeq(f.value, f.pos + 1, Len(f.value))

\* Buf::advance.  pos + cnt is a usize addition: past the largest usize it
\* wraps around where overflow checks are off and aborts where they are on.
advance(f, cnt, checked) ==
    IF f.pos + cnt >= USIZE /\ checked
    THEN [f EXCEPT !.aborted = TRUE]
    ELSE [f EXCEPT !.pos = Min((f.pos + cnt) % USIZE, Len(f.value))]

\* The arrays a frame is made over.
FrameValues ==
    UNION {[1 .. n -> Bytes] : n \in 0 .. MaxFrameLen}

\* Option<Waker>: None, or the waker of a task.
NoTask == 0
Tasks == 1 .. NumTasks

\* TestingSink::new(): unplugged, unclogged, no waker, empty buffer.
NoSink == [plugged |-> FALSE, clogged |-> FALSE, waker |-> NoTask, buffer |-> <<>>]

\* A task without a send future.
NoSend == [stage |-> "none", item |-> <<>>, id |-> 0, awake |-> FALSE]
NoTasks == [k \in Tasks |-> NoSend]
NoSends == [started |-> 0, admitted |-> <<>>, abandoned |-> {}]

\* The items sent: byte strings.
Items == {<<1>>, <<2, 3>>}

\* The tasks that wake_by_ref of the waker w wakes.
Woken(w) == IF w = NoTask THEN {} ELSE {w}

\* set_plugged: the sink after the call and the tasks woken by it.
set_plugged(s, plugged) ==
    [sink |-> [s EXCEPT !.plugged = plugged],
     woken |-> IF ~plugged THEN Woken(s.waker) ELSE {}]

\* set_clogged.
set_clogged(s, clogged) ==
    [sink |-> [s EXCEPT !.clogged = clogged],
     woken |-> IF ~clogged THEN Woken(s.waker) ELSE {}]

\* is_plugged, called with the context of task k: keeps the waker of k.
is_plugged(s, k) == [sink |-> [s EXCEPT !.waker = k], result |-> s.plugged]

\* is_clogged.
is_clogged(s, k) == [sink |-> [s EXCEPT !.waker = k], result |-> s.clogged]

\* sink_poll_ready: Pending while plugged.
sink_poll_ready(s, k) ==
    LET p == is_plugged(s, k) IN [sink |-> p.sink, ready |-> ~p.result]

\* sink_start_send: all bytes of the item go to the end of the buffer.
sink_start_send(s, item) == [s EXCEPT !.buffer = @ \o item]

\* sink_poll_flush: Pending while clogged.
sink_poll_flush(s, k) ==
    LET c == is_clogged(s, k) IN [sink |-> c.sink, ready |-> ~c.result]

\* One poll of the future returned by send(item), by task k: poll_ready and
\* start_send while the item has not been handed over, then poll_flush.
send_poll(s, fut, k) ==
    IF fut.stage = "feed"
    THEN LET r == sink_poll_ready(s, k) IN
         IF ~r.ready THEN [sink |-> r.sink, stage |-> "feed"]
         ELSE LET f == sink_poll_flush(sink_start_send(r.sink, fut.item), k)
              IN  [sink |-> f.sink, stage |-> IF f.ready THEN "done" ELSE "flush"]
    ELSE LET f == sink_poll_flush(s, k)
         IN  [sink |-> f.sink, stage |-> IF f.ready THEN "done" ELSE "flush"]

\* Where the validator alone is looked at, there is an empty frame, a new
\* sink and no send.
LibUnused ==
    /\ frame = NoFrame
    /\ sink = NoSink
    /\ tasks = NoTasks
    /\ sent = NoSends

\* The validator is constructed at some time, on a state without votes.
Init ==
    \E round_exp \in RoundExps, now \in Times, seed \in Seeds :
        LET made == new(Self, round_exp, now, EmptyState(seed)) IN
        /\ av = made.av
        /\ state = EmptyState(seed)
        /\ effects = made.effects
        /\ call = [op |-> "new", timestamp |-> now]
        /\ emitted = <<>>
        /\ timers = NoTimers
        /\ LibUnused

\* The outer loop calls handle_timer(t, state).
HandleTimer(t) ==
    /\ call = Idle
    /\ LET r == handle_timer(av, t, state) IN
       /\ av' = r.av
       /\ effects' = r.effects
       /\ emitted' = emitted \o Tagged([op |-> "handle_timer"], NewVertexVotes(r.effects))
    /\ call' = [op |-> "handle_timer", timestamp |-> t, next_timer |-> av.next_timer]
    /\ UNCHANGED <<state, timers, frame, sink, tasks, sent>>

\* on_new_vote taking &mut self and rescheduling the timer as handle_timer
\* does.
OnNewVoteRescheduling(vhash, t) ==
    /\ call = Idle
    /\ av' = schedule_timer(av, t, state).av
    /\ effects' = on_new_vote(av, vhash, t, state)
    /\ emitted' = emitted \o Tagged([op |-> "on_new_vote", vhash |-> vhash],
                                 NewVertexVotes(effects'))
    /\ call' = [op |-> "on_new_vote", timestamp |-> t, vhash |-> vhash]
    /\ UNCHANGED <<state, timers, frame, sink, tasks, sent>>

\* The outer loop calls on_new_vote(vhash, t, state) for a vote of the state.
OnNewVote(vhash, t) ==
    /\ call = Idle
    /\ effects' = on_new_vote(av, vhash, t, state)
    /\ emitted' = emitted \o Tagged([op |-> "on_new_vote", vhash |-> vhash],
                                 NewVertexVotes(effects'))
    /\ call' = [op |-> "on_new_vote", timestamp |-> t, vhash |-> vhash]
    /\ UNCHANGED <<av, state, timers, frame, sink, tasks, sent>>

\* The value provider calls propose(value, ctx, state), ctx.timestamp being t.
Propose(value, t) ==
    /\ call = Idle
    /\ effects' = propose(av, value, t, state)
    /\ emitted' = emitted \o Tagged([op |-> "propose"], NewVertexVotes(effects'))
    /\ call' = [op |-> "propose", timestamp |-> t, value |-> value]
    /\ UNCHANGED <<av, state, timers, frame, sink, tasks, sent>>

\* The outer loop applies the effects returned: every NewVertex is added to
\* the state before the next entry point runs.
Apply ==
    /\ call # Idle
    /\ Len(state.votes) + Len(NewVertexVotes(effects)) <= MaxVotes
    /\ state' = add_votes(state, NewVertexVotes(effects))
    /\ call' = Idle
    /\ effects' = <<>>
    /\ UNCHANGED <<av, emitted, timers, frame, sink, tasks, sent>>

\* The panorama of a validator that has seen nothing since its own last vote.
own_view(st, creator) ==
    IF is_correct(st.panorama[creator])
    THEN update(vote(st, st.panorama[creator].hash).panorama, creator, st.panorama[creator])
    ELSE EmptyPanorama

\* A vote of another, honest validator arrives and is added to the state.  It
\* cites its creator's last vote, and either what its creator saw up to then
\* or all of the state up to the vote's timestamp.
ForeignVote(creator, t, value, seen_all, max_votes) ==
    /\ call = Idle
    /\ Len(state.votes) < max_votes
    /\ creator # av.vidx
    /\ ~has_evidence(state, creator)
    /\ LET panorama == IF seen_all
                       THEN panorama_cutoff(state, state.panorama, t)
                       ELSE own_view(state, creator)
       IN  /\ panorama[creator] = state.panorama[creator]
           /\ \A v \in Validators :
                 is_correct(panorama[v]) => vote(state, panorama[v].hash).timestamp <= t
           /\ ~seen_all => panorama # panorama_cutoff(state, state.panorama, t)
           /\ state' = add_vote(state,
                  [panorama |-> panorama,
                   creator |-> creator,
                   value |-> value,
                   seq_number |-> IF is_correct(panorama[creator])
                                  THEN vote(state, panorama[creator].hash).seq_number + 1
                                  ELSE 0,
                   timestamp |-> t])
    /\ UNCHANGED <<av, effects, call, emitted, timers, frame, sink, tasks, sent>>

AddForeignVote(creator, t, value, seen_all) ==
    ForeignVote(creator, t, value, seen_all, MaxVotes)

\* Evidence that another validator equivocated arrives: the state keeps it and
\* marks the validator Faulty.
AddEvidence(idx) ==
    /\ call = Idle
    /\ idx # av.vidx
    /\ ~has_evidence(state, idx)
    /\ state' = add_evidence(state, idx)
    /\ UNCHANGED <<av, effects, call, emitted, timers, frame, sink, tasks, sent>>

Next ==
    \/ \E t \in Times : HandleTimer(t)
    \/ \E t \in Times : \E vhash \in DOMAIN state.votes : OnNewVote(vhash, t)
    \/ \E t \in Times : \E value \in Values : Propose(value, t)
    \/ Apply
    \/ \E creator \in Validators, t \in Times, value \in {NoValue} \cup Values :
        \E seen_all \in BOOLEAN : AddForeignVote(creator, t, value, seen_all)
    \/ \E idx \in Validators : AddEvidence(idx)

Spec == Init /\ [][Next]_vars

---------------------------------------------------------------------------
(* The same outer loop, seen one whole turn at a time: an entry point is    *)
(* called and the vertices it returns are added to the state in the same    *)
(* step.  The effects are not kept and no evidence arrives, which leaves    *)
(* room for two more votes: two proposals of other validators and the       *)
(* validator's answers to both.                                             *)

InitRun ==
    \E round_exp \in RoundExps, now \in Times, seed \in Seeds :
        /\ av = new(Self, round_exp, now, EmptyState(seed)).av
        /\ state = EmptyState(seed)
        /\ effects = <<>>
        /\ call = Idle
        /\ emitted = <<>>
        /\ timers = NoTimers
        /\ LibUnused

\* The outer loop takes the votes an entry point returned and adds them to
\* the state.
Turn(by, votes) ==
    /\ Len(state.votes) + Len(votes) <= MaxRunVotes
    /\ state' = add_votes(state, votes)
    /\ emitted' = emitted \o Tagged(by, votes)
    /\ UNCHANGED <<effects, call, timers, frame, sink, tasks, sent>>

RunHandleTimer(t) ==
    LET r == handle_timer(av, t, state) IN
    /\ av' = r.av
    /\ Turn([op |-> "handle_timer"], NewVertexVotes(r.effects))

RunOnNewVote(vhash, t) ==
    /\ Turn([op |-> "on_new_vote", vhash |-> vhash],
            NewVertexVotes(on_new_vote(av, vhash, t, state)))
    /\ UNCHANGED av

RunPropose(value, t) ==
    /\ Turn([op |-> "propose"], NewVertexVotes(propose(av, value, t, state)))
    /\ UNCHANGED av

RunForeignVote(creator, t, value, seen_all) ==
    /\ Len(state.votes) - Len(emitted) < MaxRunForeign
    /\ ForeignVote(creator, t, value, seen_all, MaxRunVotes)

NextRun ==
    \/ \E t \in Times : RunHandleTimer(t)
    \/ \E t \in Times : \E vhash \in DOMAIN state.votes : RunOnNewVote(vhash, t)
    \/ \E t \in Times : \E value \in Values : RunPropose(value, t)
    \/ \E creator \in Validators, t \in Times, value \in {NoValue} \cup Values :
        \E seen_all \in BOOLEAN : RunForeignVote(creator, t, value, seen_all)

SpecRun == InitRun /\ [][NextRun]_vars

---------------------------------------------------------------------------
(* The outer loop keeping track of its timers: which timestamps the         *)
(* validator asked to be woken at, and at which handle_timer has run.  It   *)
(* may deliver any timer at any time, also an obsolete one, or one twice.   *)

\* With this seed the validator leads the round of tick 1.
TimerSeeds == {2}

InitTimers ==
    \E round_exp \in RoundExps, now \in Times, seed \in TimerSeeds :
        LET made == new(Self, round_exp, now, EmptyState(seed)) IN
        /\ av = made.av
        /\ state = EmptyState(seed)
        /\ effects = made.effects
        /\ call = [op |-> "new", timestamp |-> now]
        /\ emitted = <<>>
        /\ timers = NoTimers
        /\ LibUnused

\* The timestamps of the ScheduleTimer effects among effs.
ScheduledBy(effs) ==
    {effs[i].timestamp : i \in {j \in 1 .. Len(effs) : effs[j].kind = "ScheduleTimer"}}

\* The outer loop applies the effects returned: it adds every NewVertex to
\* the state and takes note of the timer asked for and of the one delivered.
ApplyRecorded ==
    /\ call # Idle
    /\ Len(state.votes) + Len(NewVertexVotes(effects)) <= MaxVotes
    /\ state' = add_votes(state, NewVertexVotes(effects))
    /\ timers' = [timers EXCEPT
                      !.issued = @ \cup ScheduledBy(effects),
                      !.fired = IF call.op = "handle_timer"
                                THEN @ \cup {call.timestamp}
                                ELSE @]
    /\ call' = Idle
    /\ effects' = <<>>
    /\ UNCHANGED <<av, emitted, frame, sink, tasks, sent>>

NextTimers ==
    \/ \E t \in Times : HandleTimer(t)
    \/ \E t \in Times : \E vhash \in DOMAIN state.votes : OnNewVote(vhash, t)
    \/ \E t \in Times : \E value \in Values : Propose(value, t)
    \/ ApplyRecorded
    \/ \E creator \in Validators, t \in Times, value \in {NoValue} \cup Values :
        \E seen_all \in BOOLEAN : AddForeignVote(creator, t, value, seen_all)

SpecTimers == InitTimers /\ [][NextTimers]_vars

---------------------------------------------------------------------------
(* The outer loop honouring the timers: handle_timer runs exactly at the    *)
(* timestamp of the latest ScheduleTimer, and at no other time.             *)

InitSchedule ==
    \E round_exp \in RoundExps, now \in Times, seed \in Seeds :
        LET made == new(Self, round_exp, now, EmptyState(seed)) IN
        /\ av = made.av
        /\ state = EmptyState(seed)
        /\ effects = made.effects
        /\ call = [op |-> "new", timestamp |-> now]
        /\ emitted = <<>>
        /\ timers = [issued |-> {}, fired |-> {}, since |-> now]
        /\ LibUnused

\* The timer asked for last is due and the outer loop delivers it.
DueTimer ==
    /\ av.next_timer <= MaxScheduleTime
    /\ HandleTimer(av.next_timer)

NextSchedule ==
    \/ DueTimer
    \/ \E t \in Times : \E vhash \in DOMAIN state.votes : OnNewVote(vhash, t)
    \/ \E t \in Times : \E value \in Values : Propose(value, t)
    \/ ApplyRecorded
    \/ \E creator \in Validators, t \in Times, value \in {NoValue} \cup Values :
        \E seen_all \in BOOLEAN : AddForeignVote(creator, t, value, seen_all)

SpecSchedule == InitSchedule /\ [][NextSchedule]_vars

---------------------------------------------------------------------------
(* The validator in its longest rounds only, which leaves room for a third  *)
(* vote in the state: a vote the validator has seen, its own vote citing    *)
(* that one, and a proposal that has not seen either.                       *)

InitDeep ==
    \E now \in Times, seed \in Seeds :
        LET made == new(Self, MaxRoundExp, now, EmptyState(seed)) IN
        /\ av = made.av
        /\ state = EmptyState(seed)
        /\ effects = made.effects
        /\ call = [op |-> "new", timestamp |-> now]
        /\ emitted = <<>>
        /\ timers = NoTimers
        /\ LibUnused

ApplyDeep ==
    /\ call # Idle
    /\ Len(state.votes) + Len(NewVertexVotes(effects)) <= MaxDeepVotes
    /\ state' = add_votes(state, NewVertexVotes(effects))
    /\ call' = Idle
    /\ effects' = <<>>
    /\ UNCHANGED <<av, emitted, timers, frame, sink, tasks, sent>>

DeepForeignVote(creator, t, value, seen_all) ==
    /\ Len(state.votes) - Len(emitted) < MaxDeepForeign
    /\ ForeignVote(creator, t, value, seen_all, MaxDeepVotes)

NextDeep ==
    \/ \E t \in Times : HandleTimer(t)
    \/ \E t \in Times : \E vhash \in DOMAIN state.votes : OnNewVote(vhash, t)
    \/ \E t \in Times : \E value \in Values : Propose(value, t)
    \/ ApplyDeep
    \/ \E creator \in Validators, t \in Times, value \in {NoValue} \cup Values :
        \E seen_all \in BOOLEAN : DeepForeignVote(creator, t, value, seen_all)
    \/ \E idx \in Validators : AddEvidence(idx)

SpecDeep == InitDeep /\ [][NextDeep]_vars

---------------------------------------------------------------------------
(* The frame on its own: made over some array, then advanced.               *)

\* The state of the validator where the frame or the sink is looked at.
NodeUnused ==
    /\ av = [vidx |-> Self, round_exp |-> MaxRoundExp, next_timer |-> 0]
    /\ state = EmptyState(1)
    /\ effects = <<>>
    /\ call = Idle
    /\ emitted = <<>>
    /\ timers = NoTimers

InitFrame ==
    /\ NodeUnused
    /\ sink = NoSink
    /\ tasks = NoTasks
    /\ sent = NoSends
    /\ \/ \E value \in FrameValues : frame = frame_new(value)
       \/ \E value \in U8s : frame = from_u8(value)
       \/ \E value \in U16s : frame = from_u16(value)
       \/ \E value \in U32s : frame = from_u32(value)

\* The reader of the frame calls advance(cnt).
Advance(cnt) ==
    /\ ~frame.aborted
    /\ \E checked \in BOOLEAN : frame' = advance(frame, cnt, checked)
    /\ UNCHANGED <<av, state, effects, call, emitted, timers, sink, tasks, sent>>

NextFrame == \E cnt \in 0 .. USIZE - 1 : Advance(cnt)

SpecFrame == InitFrame /\ [][NextFrame]_vars

---------------------------------------------------------------------------
(* The sink on its own: tasks send into it while it is plugged, unplugged,  *)
(* clogged and unclogged.  A task polls its send when it has been woken; a  *)
(* send that is not complete may be dropped.                                *)

InitSink ==
    /\ NodeUnused
    /\ frame = NoFrame
    /\ sink = NoSink
    /\ tasks = NoTasks
    /\ sent = NoSends

Pending(fut) == fut.stage \in {"feed", "flush"}

\* The tasks after those in woken have been woken.
Wake(woken) ==
    [k \in Tasks |->
        IF k \in woken /\ Pending(tasks[k])
        THEN [tasks[k] EXCEPT !.awake = TRUE]
        ELSE tasks[k]]

\* set_plugged without the call of the waker.
SetPluggedNoWake(plugged) ==
    /\ sink' = set_plugged(sink, plugged).sink
    /\ UNCHANGED <<av, state, effects, call, emitted, timers, frame, tasks, sent>>

\* Some task calls set_plugged.
SetPlugged(plugged) ==
    /\ sink' = set_plugged(sink, plugged).sink
    /\ tasks' = Wake(set_plugged(sink, plugged).woken)
    /\ UNCHANGED <<av, state, effects, call, emitted, timers, frame, sent>>

\* Some task calls set_clogged.
SetClogged(clogged) ==
    /\ sink' = set_clogged(sink, clogged).sink
    /\ tasks' = Wake(set_clogged(sink, clogged).woken)
    /\ UNCHANGED <<av, state, effects, call, emitted, timers, frame, sent>>

\* Task k calls send(item) and will poll the future.
StartSend(k, item) ==
    /\ ~Pending(tasks[k])
    /\ sent.started < MaxSends
    /\ tasks' = [tasks EXCEPT ![k] =
            [stage |-> "feed", item |-> item, id |-> sent.started + 1, awake |-> TRUE]]
    /\ sent' = [sent EXCEPT !.started = @ + 1]
    /\ UNCHANGED <<av, state, effects, call, emitted, timers, frame, sink>>

\* Task k, woken, polls its send.
PollSend(k) ==
    /\ Pending(tasks[k])
    /\ tasks[k].awake
    /\ LET r == send_poll(sink, tasks[k], k) IN
       /\ sink' = r.sink
       /\ tasks' = [tasks EXCEPT ![k].stage = r.stage, ![k].awake = FALSE]
       /\ sent' = IF tasks[k].stage = "feed" /\ r.stage # "feed"
                  THEN [sent EXCEPT !.admitted =
                            Append(@, [id |-> tasks[k].id, item |-> tasks[k].item])]
                  ELSE sent
    /\ UNCHANGED <<av, state, effects, call, emitted, timers, frame>>

\* Task k drops its send before it is complete.
DropSend(k) ==
    /\ Pending(tasks[k])
    /\ tasks' = [tasks EXCEPT ![k] = NoSend]
    /\ sent' = IF tasks[k].stage = "feed"
               THEN [sent EXCEPT !.abandoned = @ \cup {tasks[k].id}]
               ELSE sent
    /\ UNCHANGED <<av, state, effects, call, emitted, timers, frame, sink>>

NextSink ==
    \/ \E plugged \in BOOLEAN : SetPlugged(plugged)
    \/ \E clogged \in BOOLEAN : SetClogged(clogged)
    \/ \E k \in Tasks, item \in Items : StartSend(k, item)
    \/ \E k \in Tasks : PollSend(k)
    \/ \E k \in Tasks : DropSend(k)

SpecSink == InitSink /\ [][NextSink]_vars

---------------------------------------------------------------------------
(* An outer loop that does not keep the order: it may run the next entry    *)
(* point although a NewVertex returned by the last one is not in the state. *)

\* The emitted votes that are not in the state.
Unadded(st, votes) ==
    {i \in 1 .. Len(votes) : \A h \in DOMAIN st.votes : st.votes[h] # votes[i].vote}

\* The outer loop goes on without adding the votes returned by the last call.
Defer ==
    /\ call # Idle
    /\ NewVertexVotes(effects) # <<>>
    /\ Cardinality(Unadded(state, emitted)) <= MaxUnadded
    /\ call' = Idle
    /\ effects' = <<>>
    /\ UNCHANGED <<av, state, emitted, timers, frame, sink, tasks, sent>>

NextUnordered ==
    \/ \E t \in Times : HandleTimer(t)
    \/ \E t \in Times : \E vhash \in DOMAIN state.votes : OnNewVote(vhash, t)
    \/ \E t \in Times : \E value \in Values : Propose(value, t)
    \/ Apply
    \/ Defer
    \/ \E creator \in Validators, t \in Times, value \in {NoValue} \cup Values :
        \E seen_all \in BOOLEAN : AddForeignVote(creator, t, value, seen_all)

SpecUnordered == Init /\ [][NextUnordered]_vars

---------------------------------------------------------------------------
(* A state that has come to hold evidence against the validator itself.     *)

\* Evidence that the validator itself equivocated arrives: the state marks
\* its slot Faulty.  (It arrives when the state has room for one more vote:
\* from then on the validator can return the same vote any number of times.)
AddOwnEvidence ==
    /\ call = Idle
    /\ Len(state.votes) + 1 >= MaxVotes
    /\ ~has_evidence(state, av.vidx)
    /\ state' = add_evidence(state, av.vidx)
    /\ UNCHANGED <<av, effects, call, emitted, timers, frame, sink, tasks, sent>>

NextFaultySelf ==
    \/ \E t \in Times : HandleTimer(t)
    \/ \E t \in Times : \E vhash \in DOMAIN state.votes : OnNewVote(vhash, t)
    \/ \E t \in Times : \E value \in Values : Propose(value, t)
    \/ Apply
    \/ \E creator \in Validators, t \in Times, value \in {NoValue} \cup Values :
        \E seen_all \in BOOLEAN : AddForeignVote(creator, t, value, seen_all)
    \/ AddOwnEvidence

SpecFaultySelf == Init /\ [][NextFaultySelf]_vars

---------------------------------------------------------------------------
(* The claims.                                                             *)

\* The votes returned by the last call.
Returned == NewVertexVotes(effects)

\* The kinds of the effects returned by the last call, in order.
Kinds == [i \in 1 .. Len(effects) |-> effects[i].kind]

\* An entry point was called in the last step; the state is still the one
\* it was called with.
EntryPointCalled == call.op \in {"handle_timer", "on_new_vote", "propose"}

\* C1 (no equivocation): every vote an entry point returns has a timestamp
\* at least earliest_vote_time of the state it was called with, and the
\* timestamps of the validator's own votes never decrease in emission order.
C1_NoEquivocation ==
    /\ \A i \in 1 .. Len(Returned) :
          Returned[i].timestamp >= earliest_vote_time(av, state)
    /\ \A i, j \in 1 .. Len(emitted) :
          i < j => emitted[i].vote.timestamp <= emitted[j].vote.timestamp

\* A vote is returned while the state holds an earlier own vote with a
\* timestamp above 0.
C1_Witness ==
    /\ Returned # <<>>
    /\ Len(emitted) >= 2
    /\ earliest_vote_time(av, state) > 0

\* C2 (sequence continuity and self-reference): the i-th vote emitted,
\* counting from 0, has seq_number i; the first has None in its own slot and
\* every later one cites the vote emitted just before it.
C2_Sequence ==
    \A i \in 1 .. Len(emitted) :
        LET v == emitted[i].vote IN
        /\ v.seq_number = i - 1
        /\ IF i = 1
           THEN v.panorama[av.vidx] = ObsNone
           ELSE /\ is_correct(v.panorama[av.vidx])
                /\ v.panorama[av.vidx].hash \in DOMAIN state.votes
                /\ vote(state, v.panorama[av.vidx].hash) = emitted[i - 1].vote

\* The second vote emitted is a confirmation of a proposal that does not
\* cite the first.
C2_Witness ==
    /\ Len(emitted) = 2
    /\ call.op = "on_new_vote"
    /\ Returned # <<>>
    /\ vote(state, call.vhash).panorama[av.vidx] = ObsNone

\* C3 (faulty freezing): every returned vote has Faulty in the slot of every
\* validator the state has evidence against.
C3_FaultyFreezing ==
    \A i \in 1 .. Len(Returned) :
        \A f \in Validators :
            has_evidence(state, f) => Returned[i].panorama[f] = Faulty

\* A confirmation is returned for a proposal that cites a vote of a validator
\* the state has evidence against.
C3_Witness ==
    /\ call.op = "on_new_vote"
    /\ Returned # <<>>
    /\ \E f \in Validators :
          /\ has_evidence(state, f)
          /\ is_correct(vote(state, call.vhash).panorama[f])

\* The confirmations emitted that on_new_vote returned when called for h.
ConfirmationsOf(h) ==
    {i \in 1 .. Len(emitted) :
        /\ emitted[i].by.op = "on_new_vote"
        /\ emitted[i].by.vhash = h}

\* The confirmations emitted that cite the vote h in its creator's slot.
ConfirmationsCiting(h) ==
    {i \in 1 .. Len(emitted) :
        /\ emitted[i].by.op = "on_new_vote"
        /\ emitted[i].vote.panorama[vote(state, h).creator] = Correct(h)}

\* C4 (at most one confirmation per proposal): for every vote p, at most one
\* of the confirmations emitted was returned by a call on_new_vote(p, t).
C4_OneConfirmation ==
    \A h \in DOMAIN state.votes : Cardinality(ConfirmationsOf(h)) <= 1

\* C4 as stated: at most one emitted confirmation cites a given vote in the
\* slot of its creator.
C4_OneConfirmationCiting ==
    \A h \in DOMAIN state.votes : Cardinality(ConfirmationsCiting(h)) <= 1

\* A vote was confirmed, the validator has voted again since, and a further
\* call of on_new_vote for it, at a time in its round that is not outdated,
\* returns nothing.
C4_Witness ==
    \E h \in DOMAIN state.votes : \E t \in Times :
        /\ ConfirmationsOf(h) # {}
        /\ \E i \in ConfirmationsOf(h) : i < Len(emitted)
        /\ t >= earliest_vote_time(av, state)
        /\ t \div round_len(av) = vote(state, h).timestamp \div round_len(av)
        /\ ~has_evidence(state, vote(state, h).creator)
        /\ on_new_vote(av, h, t, state) = <<>>

\* C5 (timer monotonicity): no step decreases next_timer.
C5_TimerMonotone == [][av'.next_timer >= av.next_timer]_vars

\* handle_timer was called with a timestamp below one it was called with
\* before, after the timer had advanced.
C5_Witness ==
    /\ call.op = "handle_timer"
    /\ call.timestamp + round_len(av) < call.next_timer
    /\ av.next_timer = call.next_timer

\* C6 (proposal timing): a RequestNewBlock is returned only by handle_timer(t)
\* with t mod L = 0 and leader(t) = self, and carries the timestamp t.
C6_ProposalTiming ==
    \A i \in 1 .. Len(effects) :
        effects[i].kind = "RequestNewBlock" =>
            /\ call.op = "handle_timer"
            /\ call.timestamp % round_len(av) = 0
            /\ leader(state, call.timestamp) = av.vidx
            /\ effects[i].timestamp = call.timestamp

\* handle_timer returned a RequestNewBlock, in rounds longer than one tick.
C6_Witness ==
    /\ round_len(av) > 1
    /\ \E i \in 1 .. Len(effects) : effects[i].kind = "RequestNewBlock"

\* C7 (witness timing): a returned vote without a value that is not a
\* confirmation of on_new_vote is returned by handle_timer(t) with
\* t mod L = (L * 2) / 3, and carries the timestamp t.
C7_WitnessTiming ==
    \A i \in 1 .. Len(Returned) :
        (Returned[i].value = NoValue /\ call.op # "on_new_vote") =>
            /\ call.op = "handle_timer"
            /\ call.timestamp % round_len(av) = (round_len(av) * 2) \div 3
            /\ Returned[i].timestamp = call.timestamp

\* handle_timer returned a witness vote, in rounds of four ticks.
C7_Witness ==
    /\ call.op = "handle_timer"
    /\ round_len(av) = 4
    /\ Returned # <<>>

\* t is a timestamp the validator must wake at: a witness tick, or the
\* proposal tick of a round whose leader it is.
IsLandmark(a, st, t) ==
    \/ t % round_len(a) = witness_offset(a)
    \/ t % round_len(a) = 0 /\ leader(st, t) = a.vidx

\* t is the least landmark strictly after now.
FirstLandmarkAfter(a, st, now, t) ==
    /\ t > now
    /\ IsLandmark(a, st, t)
    /\ \A u \in (now + 1) .. (t - 1) : ~IsLandmark(a, st, u)

\* C8 (construction): new returns exactly one effect, ScheduleTimer(t'), t'
\* being the least landmark strictly after the start time, and next_timer
\* is t' afterwards.
C8_Construction ==
    call.op = "new" =>
        /\ effects = <<ScheduleTimer(av.next_timer)>>
        /\ FirstLandmarkAfter(av, state, call.timestamp, av.next_timer)

\* A validator constructed after the witness tick of a round, whose next
\* round it leads: its first timer is that round's proposal tick.
C8_Witness ==
    /\ call.op = "new"
    /\ round_len(av) > 1
    /\ av.next_timer % round_len(av) = 0

\* C9 (equivocation guard): a call whose timestamp is below
\* earliest_vote_time returns no NewVertex and no RequestNewBlock:
\* on_new_vote and propose return the empty list, handle_timer only what its
\* reschedule step returned.
C9_StaleEvent ==
    (EntryPointCalled /\ earliest_vote_time(av, state) > call.timestamp) =>
        /\ \A i \in 1 .. Len(effects) : effects[i].kind = "ScheduleTimer"
        /\ call.op \in {"on_new_vote", "propose"} => effects = <<>>
        /\ call.op = "handle_timer" =>
              effects = schedule_timer([av EXCEPT !.next_timer = call.next_timer],
                                       call.timestamp, state).effects

\* An outdated handle_timer call at a witness tick that rescheduled the timer
\* and returned nothing else.
C9_Witness ==
    /\ call.op = "handle_timer"
    /\ earliest_vote_time(av, state) > call.timestamp
    /\ call.timestamp % round_len(av) = witness_offset(av)
    /\ Len(effects) = 1

\* C10 (propose): propose with earliest_vote_time <= ctx.timestamp returns
\* exactly one effect, a NewVertex whose vote has creator self, the
\* timestamp of the context, the value, and the state's panorama cut off at
\* the timestamp.
C10_Propose ==
    (call.op = "propose" /\ earliest_vote_time(av, state) <= call.timestamp) =>
        /\ Kinds = <<"NewVertex">>
        /\ effects[1].vote.creator = av.vidx
        /\ effects[1].vote.timestamp = call.timestamp
        /\ effects[1].vote.value = call.value
        /\ effects[1].vote.panorama
              = panorama_cutoff(state, state.panorama, call.timestamp)

\* propose returned a proposal with an empty panorama and sequence number 0,
\* at a timestamp that is no proposal tick, in a round self does not lead.
C10_Witness ==
    /\ call.op = "propose"
    /\ Len(effects) = 1
    /\ is_empty(effects[1].vote.panorama)
    /\ effects[1].vote.seq_number = 0
    /\ call.timestamp % round_len(av) # 0
    /\ leader(state, call.timestamp - (call.timestamp % round_len(av))) # av.vidx
    /\ leader(state, call.timestamp) # av.vidx

\* The six conditions of a confirmation, for the call on_new_vote(h, t) on the
\* state st.
SixConditions(a, st, h, t) ==
    /\ vote(st, h).timestamp <= t
    /\ vote(st, h).timestamp \div round_len(a) = t \div round_len(a)
    /\ leader(st, vote(st, h).timestamp) = vote(st, h).creator
    /\ vote(st, h).creator # a.vidx
    /\ ~has_evidence(st, vote(st, h).creator)
    /\ \/ st.panorama[a.vidx] = ObsNone
       \/ /\ is_correct(st.panorama[a.vidx])
          /\ ~sees_correct(st, vote(st, st.panorama[a.vidx].hash).panorama, h)

\* C11 (confirmation conditions): on_new_vote(vhash, t) returns exactly one
\* effect, a NewVertex with a vote of self without a value and with
\* timestamp t, if earliest_vote_time <= t and the six conditions hold, and
\* the empty list otherwise.
C11_Confirmation ==
    call.op = "on_new_vote" =>
        IF /\ earliest_vote_time(av, state) <= call.timestamp
           /\ SixConditions(av, state, call.vhash, call.timestamp)
        THEN /\ Kinds = <<"NewVertex">>
             /\ effects[1].vote.creator = av.vidx
             /\ effects[1].vote.value = NoValue
             /\ effects[1].vote.timestamp = call.timestamp
        ELSE effects = <<>>

\* on_new_vote returned a confirmation although the validator has voted
\* before, and the proposal is older than the call.
C11_Witness ==
    /\ call.op = "on_new_vote"
    /\ Len(effects) = 1
    /\ is_correct(state.panorama[av.vidx])
    /\ vote(state, call.vhash).timestamp < call.timestamp

\* C12 (no confirmation of own or faulty votes): a confirmation returned by
\* on_new_vote(vhash, t) cites vhash in the slot of its creator, and that
\* creator is neither self nor a validator the state has evidence against.
C12_NoSelfOrFaultyConfirmation ==
    (call.op = "on_new_vote" /\ Returned # <<>>) =>
        LET creator == vote(state, call.vhash).creator IN
        /\ Returned[1].panorama[creator] = Correct(call.vhash)
        /\ creator # av.vidx
        /\ ~has_evidence(state, creator)

\* on_new_vote is called for a proposal of the validator itself, made as the
\* leader of the round of the call; the call is not outdated, and nothing is
\* returned.
C12_Witness ==
    /\ call.op = "on_new_vote"
    /\ effects = <<>>
    /\ call.timestamp >= earliest_vote_time(av, state)
    /\ LET v == vote(state, call.vhash) IN
       /\ v.timestamp <= call.timestamp
       /\ v.timestamp \div round_len(av) = call.timestamp \div round_len(av)
       /\ leader(state, v.timestamp) = v.creator
       /\ v.creator = av.vidx

\* C13 (frame): no step changes vidx or round_exp; only a call of
\* handle_timer changes the validator (its next_timer); and no call of an
\* entry point changes the state.
C13_Frame ==
    [][/\ av'.vidx = av.vidx
       /\ av'.round_exp = av.round_exp
       /\ av' # av => call'.op = "handle_timer"
       /\ call'.op \in {"handle_timer", "on_new_vote", "propose"} => state' = state]_vars

\* handle_timer moved next_timer, on a state that holds votes.
C13_Witness ==
    /\ call.op = "handle_timer"
    /\ av.next_timer # call.next_timer
    /\ state.votes # <<>>

\* propose is called for a context the validator requested a block for, at
\* the proposal tick of a round it leads, and that round is over: the outer
\* loop has since delivered a timer the validator asked for, at a landmark of
\* a later round.
LatePropose ==
    /\ call.op = "propose"
    /\ call.timestamp \in timers.issued \cap timers.fired
    /\ call.timestamp % round_len(av) = 0
    /\ leader(state, call.timestamp) = av.vidx
    /\ \E u \in timers.issued \cap timers.fired :
          /\ u >= call.timestamp - (call.timestamp % round_len(av)) + round_len(av)
          /\ IsLandmark(av, state, u)

\* C14 (late propose is dropped): a late propose returns the empty list, if
\* the validator has emitted a vote with a timestamp above that of the
\* context since.
C14_LateProposeAfterVote ==
    (/\ LatePropose
     /\ \E i \in 1 .. Len(emitted) : emitted[i].vote.timestamp > call.timestamp)
        => effects = <<>>

\* C14 as stated: every late propose returns the empty list.
C14_LateProposeDropped == LatePropose => effects = <<>>

\* A block was requested at the proposal tick of a round the validator
\* leads, the validator cast its witness vote at a later landmark, and the
\* propose for the request came after that and returned nothing.
C14_Witness ==
    /\ LatePropose
    /\ \E i \in 1 .. Len(emitted) :
          /\ emitted[i].by.op = "handle_timer"
          /\ emitted[i].vote.timestamp > call.timestamp
    /\ effects = <<>>

\* handle_timer(t) is called for a timer the validator asked for that has
\* been superseded: handle_timer has run with a timestamp of at least t
\* before, and next_timer is beyond t.
ObsoleteTimer ==
    /\ call.op = "handle_timer"
    /\ call.timestamp \in timers.issued
    /\ call.next_timer > call.timestamp
    /\ \E u \in timers.fired : u >= call.timestamp

\* C15 (obsolete timer fires): a superseded timer delivered after the
\* validator has emitted a vote with a timestamp above the timer's returns no
\* NewVertex and no RequestNewBlock.
C15_ObsoleteTimerAfterVote ==
    (/\ ObsoleteTimer
     /\ \E i \in 1 .. Len(emitted) : emitted[i].vote.timestamp > call.timestamp)
        => effects = <<>>

\* C15 as stated: every superseded timer that is delivered returns no
\* NewVertex and no RequestNewBlock.
C15_ObsoleteTimerHarmless ==
    ObsoleteTimer =>
        \A i \in 1 .. Len(effects) :
            effects[i].kind \notin {"NewVertex", "RequestNewBlock"}

\* A witness tick is delivered a second time, after the validator has voted
\* at a later timestamp, and returns nothing.
C15_Witness ==
    /\ ObsoleteTimer
    /\ call.timestamp \in timers.fired
    /\ call.timestamp % round_len(av) = witness_offset(av)
    /\ earliest_vote_time(av, state) > call.timestamp
    /\ effects = <<>>

\* Two emitted votes break the no-equivocation rule: the later one has a
\* lower timestamp, or they differ, have the same sequence number and the
\* later one does not cite the earlier one.
EquivocationEmitted ==
    \E i, j \in 1 .. Len(emitted) :
        /\ i < j
        /\ \/ emitted[j].vote.timestamp < emitted[i].vote.timestamp
           \/ /\ emitted[i].vote # emitted[j].vote
              /\ emitted[i].vote.seq_number = emitted[j].vote.seq_number
              /\ \/ ~is_correct(emitted[j].vote.panorama[av.vidx])
                 \/ emitted[j].vote.panorama[av.vidx].hash \notin DOMAIN state.votes
                 \/ vote(state, emitted[j].vote.panorama[av.vidx].hash) # emitted[i].vote

\* Every vote returned before the last call was added to the state before
\* the call.
OrderRespected ==
    Unadded(state, emitted) \subseteq (Len(emitted) - Len(Returned) + 1) .. Len(emitted)

\* C16 (ordering requirement): as long as every returned vote was added to
\* the state before the next call, no two emitted votes break the
\* no-equivocation rule.
C16_OrderedNoEquivocation == OrderRespected => ~EquivocationEmitted

\* An entry point ran although the vote returned before it was not in the
\* state, and returned a vote that breaks the rule with that one.
C16_Witness ==
    /\ ~OrderRespected
    /\ Returned # <<>>
    /\ EquivocationEmitted

\* C17 (contract violations are fatal), as stated: a validator constructed
\* with a round length below 3 produces no effect, and neither does an entry
\* point called with a state that marks the validator's own slot Faulty.
C17_ContractViolationsFatal ==
    /\ round_len(av) < 3 => effects = <<>>
    /\ (EntryPointCalled /\ state.panorama[av.vidx] = Faulty) => effects = <<>>

\* A validator with the identity of av and another history: constructed at
\* now2 and not called since.
Twin(now2) == new(av.vidx, av.round_exp, now2, state).av

\* What the twin returns for the last call, made on the same state.
TwinEffects(now2) ==
    IF call.op = "handle_timer"
    THEN handle_timer(Twin(now2), call.timestamp, state).effects
    ELSE IF call.op = "on_new_vote"
    THEN on_new_vote(Twin(now2), call.vhash, call.timestamp, state)
    ELSE propose(Twin(now2), call.value, call.timestamp, state)

\* The effects other than ScheduleTimer, in order.
RECURSIVE WithoutTimers(_)
WithoutTimers(effs) ==
    IF effs = <<>> THEN <<>>
    ELSE IF Head(effs).kind = "ScheduleTimer"
         THEN WithoutTimers(Tail(effs))
         ELSE <<Head(effs)>> \o WithoutTimers(Tail(effs))

\* C18 (determinism): on the same call and state, a validator with the same
\* identity returns the same effects whatever its history, ScheduleTimer
\* effects of handle_timer apart; those are the same too if next_timer is.
C18_Determinism ==
    EntryPointCalled =>
        \A now2 \in Times :
            /\ WithoutTimers(TwinEffects(now2)) = WithoutTimers(effects)
            /\ call.op \in {"on_new_vote", "propose"} => TwinEffects(now2) = effects
            /\ (call.op = "handle_timer" /\ Twin(now2).next_timer = call.next_timer)
                  => TwinEffects(now2) = effects

\* C18 as stated: on the same call and state, a validator with the same
\* identity returns the same effects whatever its history.
C18_DeterminismOfAll ==
    EntryPointCalled => \A now2 \in Times : TwinEffects(now2) = effects

\* handle_timer returned a vote and no timer, and a validator with the same
\* identity but an earlier next_timer returns the vote and a timer.
C18_Witness ==
    /\ call.op = "handle_timer"
    /\ Kinds = <<"NewVertex">>
    /\ \E now2 \in Times :
          /\ Twin(now2).next_timer < call.next_timer
          /\ Len(TwinEffects(now2)) = 2

\* The timer the reschedule rule gives for a call at t: the witness tick of
\* the round of t if it is still ahead, else the start of the next round
\* if the validator leads it, else the witness tick of the next round.
RuleTimer(t) ==
    LET L == 2 ^ av.round_exp
        offset == (L * 2) \div 3
        round_id == t - (t % L)
    IN  IF t % L < offset THEN round_id + offset
        ELSE IF leader(state, round_id + L) = av.vidx THEN round_id + L
        ELSE round_id + L + offset

\* The ScheduleTimer effects among effs, in order.
RECURSIVE OnlyTimers(_)
OnlyTimers(effs) ==
    IF effs = <<>> THEN <<>>
    ELSE IF Head(effs).kind = "ScheduleTimer"
         THEN <<Head(effs)>> \o OnlyTimers(Tail(effs))
         ELSE OnlyTimers(Tail(effs))

\* C19 (reschedule rule): handle_timer(t), and new at t with next_timer 0,
\* leaves next_timer alone and returns no ScheduleTimer if next_timer > t;
\* otherwise it sets next_timer to the rule's timer and returns exactly one
\* ScheduleTimer, for that timer.
C19_RescheduleRule ==
    call.op \in {"handle_timer", "new"} =>
        LET before == IF call.op = "new" THEN 0 ELSE call.next_timer IN
        IF before > call.timestamp
        THEN /\ av.next_timer = before
             /\ OnlyTimers(effects) = <<>>
        ELSE /\ av.next_timer = RuleTimer(call.timestamp)
             /\ OnlyTimers(effects) = <<ScheduleTimer(av.next_timer)>>

\* handle_timer was called exactly at next_timer, at the witness tick of a
\* round before one the validator leads, and scheduled that round's start.
C19_Witness ==
    /\ call.op = "handle_timer"
    /\ call.timestamp = call.next_timer
    /\ round_len(av) > 1
    /\ effects # <<>>
    /\ effects[1] = ScheduleTimer(call.timestamp - (call.timestamp % round_len(av))
                                      + round_len(av))

\* The timestamps handle_timer has been called with, the last call included.
Delivered ==
    timers.fired \cup (IF call.op = "handle_timer" THEN {call.timestamp} ELSE {})

\* C20 (landmark coverage): with handle_timer called exactly at the timers
\* asked for, every landmark below next_timer that lies in a round that
\* started after the construction has had its handle_timer call: the witness
\* tick of the round, and its proposal tick if the validator leads it.
C20_LandmarkCoverage ==
    \A u \in 0 .. (av.next_timer - 1) :
        (/\ u - (u % round_len(av)) > timers.since
         /\ IsLandmark(av, state, u))
            => u \in Delivered

\* In rounds of two ticks or more, handle_timer has run at the proposal tick
\* of a round the validator leads, at the witness tick of that round, and at
\* the witness tick of the round after it, which it does not lead.
C20_Witness ==
    /\ round_len(av) > 1
    /\ \E u \in Delivered :
          /\ u > timers.since
          /\ u % round_len(av) = 0
          /\ leader(state, u) = av.vidx
          /\ u + witness_offset(av) \in Delivered
          /\ leader(state, u + round_len(av)) # av.vidx
          /\ u + round_len(av) + witness_offset(av) \in Delivered

\* C21 (confirmation panorama): the panorama of a confirmation returned by
\* on_new_vote(vhash, t) has Faulty in the slot of every faulty validator and
\* Correct(vhash) in the slot of the creator of vhash; with a previous own
\* vote in the state it has that vote in the own slot and in every other
\* slot the merge of the cited vote's panorama and the previous own vote's;
\* without one, every other slot is the cited vote's, the own slot is None
\* and the sequence number 0.
C21_ConfirmationPanorama ==
    (call.op = "on_new_vote" /\ Returned # <<>>) =>
        LET c == Returned[1]
            p == vote(state, call.vhash)
            own == state.panorama[av.vidx]
        IN  /\ \A x \in Validators :
                  c.panorama[x] =
                      IF x \in faulty_validators(state) THEN Faulty
                      ELSE IF x = p.creator THEN Correct(call.vhash)
                      ELSE IF ~is_correct(own) THEN p.panorama[x]
                      ELSE IF x = av.vidx THEN own
                      ELSE merge_panoramas(state, p.panorama,
                                           vote(state, own.hash).panorama)[x]
            /\ ~is_correct(own) =>
                  c.panorama[av.vidx] = ObsNone /\ c.seq_number = 0

\* A confirmation is returned that cites, from the validator's previous
\* vote, the vote of a third validator that the confirmed proposal has not
\* seen.
C21_Witness ==
    /\ call.op = "on_new_vote"
    /\ Returned # <<>>
    /\ \E x \in Validators :
          /\ x # av.vidx
          /\ x # vote(state, call.vhash).creator
          /\ is_correct(Returned[1].panorama[x])
          /\ vote(state, call.vhash).panorama[x] = ObsNone

\* C22 (only proposals are confirmed), as stated: on_new_vote(vhash, t)
\* returns a confirmation only if the vote vhash carries a value; a vote of
\* the round's leader without a value never triggers a confirmation.
C22_OnlyProposalsConfirmed ==
    (call.op = "on_new_vote" /\ Returned # <<>>) =>
        vote(state, call.vhash).value # NoValue

\* What a handle_timer call may return: at most one ScheduleTimer, first if
\* present, then at most one RequestNewBlock or NewVertex.
TimerShape(effs) ==
    /\ Len(effs) <= 2
    /\ \A i \in 2..Len(effs) : effs[i].kind # "ScheduleTimer"
    /\ Len(effs) = 2 => effs[1].kind = "ScheduleTimer"

\* The timestamp is both the first tick of a round of a and its witness tick.
TicksCoincide(a, t) ==
    t % round_len(a) = 0 /\ t % round_len(a) = witness_offset(a)

AtWitnessTick ==
    /\ call.op = "handle_timer"
    /\ call.timestamp % round_len(av) = witness_offset(av)

\* C24 (empty panorama at the witness tick), as stated: handle_timer(t) at a
\* witness tick returns nothing but the reschedule effect when the panorama
\* cut off at t is empty; when it is not empty and the equivocation guard
\* passes, it returns exactly one NewVertex, a vote with that panorama,
\* timestamp t and no value.
C24_WitnessTick ==
    AtWitnessTick =>
        LET panorama == panorama_cutoff(state, state.panorama, call.timestamp) IN
        /\ is_empty(panorama) =>
              \A i \in 1..Len(effects) : effects[i].kind = "ScheduleTimer"
        /\ (~is_empty(panorama)
              /\ ~(earliest_vote_time(av, state) > call.timestamp)) =>
              /\ Len(Returned) = 1
              /\ Returned[1].panorama = panorama
              /\ Returned[1].timestamp = call.timestamp
              /\ Returned[1].value = NoValue

\* C25 (scheduled timers are strictly future landmarks): a ScheduleTimer(t')
\* returned by a call with timestamp t has t' > t, t' is a witness tick or
\* the first tick of a round led by the validator, and t' is greater than
\* every timer scheduled by the validator before.
C25_StrictlyFutureTimers ==
    \A i \in 1 .. Len(effects) :
        effects[i].kind = "ScheduleTimer" =>
            /\ effects[i].timestamp > call.timestamp
            /\ IsLandmark(av, state, effects[i].timestamp)
            /\ \A earlier \in timers.issued : effects[i].timestamp > earlier

\* handle_timer returns a ScheduleTimer after two timers were scheduled
\* before, and was called before the latest of them was due.
C25_Witness ==
    /\ call.op = "handle_timer"
    /\ \E i \in 1 .. Len(effects) : effects[i].kind = "ScheduleTimer"
    /\ \E u, w \in timers.issued : u < w

\* The vote v cites no vote of st with a timestamp above its own.
Causal(st, v) ==
    \A x \in Validators :
        is_correct(v.panorama[x]) =>
            vote(st, v.panorama[x].hash).timestamp <= v.timestamp

\* C26 (causal timestamps): called on a state in which no stored vote cites
\* a vote with a later timestamp than its own, an entry point returns only
\* votes (witness, proposal, confirmation) whose timestamp is at least that
\* of every vote their panorama cites, the confirmed vote and the previous
\* own vote included.
C26_CausalTimestamps ==
    (EntryPointCalled /\ \A h \in DOMAIN state.votes : Causal(state, vote(state, h))) =>
        \A i \in 1 .. Len(Returned) : Causal(state, Returned[i])

\* A confirmation is returned that cites the previous own vote and the
\* confirmed vote, one of them with the timestamp of the confirmation itself
\* and one with an earlier one.
C26_Witness ==
    /\ call.op = "on_new_vote"
    /\ Returned # <<>>
    /\ is_correct(Returned[1].panorama[av.vidx])
    /\ \E x, y \in Validators :
          /\ is_correct(Returned[1].panorama[x])
          /\ is_correct(Returned[1].panorama[y])
          /\ vote(state, Returned[1].panorama[x].hash).timestamp = call.timestamp
          /\ vote(state, Returned[1].panorama[y].hash).timestamp < call.timestamp

\* C27 (ImmediateFrame read position), as stated: whatever the frame was
\* made over and however it was advanced, pos is strictly smaller than the
\* length of the data.
C27_ReadPosition == frame.pos < Len(frame.value)

\* The bytes of the items admitted, in the order of admission.
RECURSIVE Concatenated(_)
Concatenated(entries) ==
    IF entries = <<>> THEN <<>>
    ELSE Head(entries).item \o Concatenated(Tail(entries))

AdmittedIds == {sent.admitted[i].id : i \in 1 .. Len(sent.admitted)}

\* The step is a poll of its send by task k.
Polled(k) == tasks[k].awake /\ ~tasks'[k].awake /\ tasks'[k].stage # "none"

====
